---- MODULE Spec2Model ----
(***************************************************************************)
(* Browsing proxy.  proxy-backend/src/server.ts: host allowlist, URL       *)
(* resolution, link rewriting, the /proxy_backend and /search request      *)
(* handlers.  render-service/src/render.ts: the /render request handler.   *)
(* part_000: the client's navigation history.                              *)
(*                                                                         *)
(* Strings are sequences of atoms.  An atom is either one reserved         *)
(* character (: / ? = % & , ; and the space) or a maximal run of           *)
(* characters that encodeURIComponent leaves alone ("https", "a.com",      *)
(* "about", "3A").  The empty string is <<>>.                              *)
(***************************************************************************)
EXTENDS Integers, Sequences, FiniteSets, TLC

Str(a) == <<a>>

\* characters outside A-Z a-z 0-9 - _ . ! ~ * ' ( )
ReservedChars == {":", "/", "?", "=", "%", "&", " ", ",", ";"}

\* the two hex digits of a reserved character's UTF-8 byte
HexOf(c) ==
  CASE c = ":" -> "3A" [] c = "/" -> "2F" [] c = "?" -> "3F" [] c = "=" -> "3D"
    [] c = "%" -> "25" [] c = "&" -> "26" [] c = " " -> "20" [] c = "," -> "2C"
    [] c = ";" -> "3B"

HexCodes == {HexOf(c) : c \in ReservedChars}

CharOfHex(h) == CHOOSE c \in ReservedChars : HexOf(c) = h

\* String.prototype.toLowerCase / ASCII lowercasing, atom by atom
LowerAtom(a) ==
  CASE a = "JavaScript" -> "javascript"
    [] a = "DATA" -> "data"
    [] a = "HTTPS" -> "https"
    [] a = "A.com" -> "a.com"
    [] a = "Content-Security-Policy" -> "content-security-policy"
    [] OTHER -> a

RECURSIVE Lower(_)
Lower(s) == IF s = <<>> THEN <<>> ELSE <<LowerAtom(Head(s))>> \o Lower(Tail(s))

\* encodeURIComponent: every reserved character becomes %XX, the rest is kept
RECURSIVE encodeURIComponent(_)
encodeURIComponent(s) ==
  IF s = <<>> THEN <<>>
  ELSE (IF Head(s) \in ReservedChars THEN <<"%", HexOf(Head(s))>> ELSE <<Head(s)>>)
         \o encodeURIComponent(Tail(s))

\* every % of s starts an escape %XX
RECURSIVE WellEscaped(_)
WellEscaped(s) ==
  IF s = <<>> THEN TRUE
  ELSE IF Head(s) = "%"
    THEN Len(s) >= 2 /\ s[2] \in HexCodes /\ WellEscaped(SubSeq(s, 3, Len(s)))
    ELSE WellEscaped(Tail(s))

RECURSIVE Unescape(_)
Unescape(s) ==
  IF s = <<>> THEN <<>>
  ELSE IF Head(s) = "%" THEN <<CharOfHex(s[2])>> \o Unescape(SubSeq(s, 3, Len(s)))
  ELSE <<Head(s)>> \o Unescape(Tail(s))

\* decodeURIComponent: %XX becomes its character; a % that starts no escape
\* is a URIError (ok = FALSE)
decodeURIComponent(s) ==
  IF WellEscaped(s) THEN [ok |-> TRUE, val |-> Unescape(s)]
  ELSE [ok |-> FALSE, val |-> <<>>]

(***************************************************************************)
(* new URL(input, base): the WHATWG URL parser on atom strings.  Modelled: *)
(* leading/trailing space stripping, scheme detection and lowercasing,     *)
(* special (http, https) and opaque-path schemes, host lowercasing and     *)
(* validation, ports, dot segments, percent-encoding of spaces, and the    *)
(* relative forms (protocol-relative, path-absolute, path-relative,        *)
(* query-only, empty).  Not modelled: credentials, fragments, IPv6, IDNA.  *)
(***************************************************************************)
SpecialSchemes == {Str("http"), Str("https")}

DigitAtoms == {"20", "25", "26", "2C", "3A", "3B", "2F", "3F", "3D", "80", "443"}
PortAtoms == {"20", "25", "26", "80", "443"}

\* an atom that can be a scheme: starts with a letter, no reserved character
IsSchemeAtom(a) == a \notin ReservedChars /\ a \notin DigitAtoms /\ a \notin {"..", "."}

NoURL == [ok |-> FALSE, scheme |-> <<>>, host |-> <<>>, port |-> <<>>,
          opaque |-> FALSE, path |-> <<>>, hasQuery |-> FALSE, query |-> <<>>]

RECURSIVE StripLeft(_)
StripLeft(s) == IF s # <<>> /\ Head(s) = " " THEN StripLeft(Tail(s)) ELSE s

RECURSIVE StripRight(_)
StripRight(s) ==
  IF s # <<>> /\ s[Len(s)] = " " THEN StripRight(SubSeq(s, 1, Len(s) - 1)) ELSE s

RECURSIVE StripSlashes(_)
StripSlashes(s) == IF s # <<>> /\ Head(s) = "/" THEN StripSlashes(Tail(s)) ELSE s

\* index of the first atom of s that is in set cs, Len(s) + 1 when none is
RECURSIVE IndexOf(_, _)
IndexOf(s, cs) ==
  IF s = <<>> THEN 1 ELSE IF Head(s) \in cs THEN 1 ELSE 1 + IndexOf(Tail(s), cs)

Before(s, cs) == SubSeq(s, 1, IndexOf(s, cs) - 1)
From(s, cs) == SubSeq(s, IndexOf(s, cs), Len(s))
After(s, cs) == SubSeq(s, IndexOf(s, cs) + 1, Len(s))

\* the path and query percent-encode sets, restricted to the alphabet: space
RECURSIVE UrlPct(_)
UrlPct(s) ==
  IF s = <<>> THEN <<>>
  ELSE (IF Head(s) = " " THEN <<"%", "20">> ELSE <<Head(s)>>) \o UrlPct(Tail(s))

\* split on "/": n slashes give n + 1 segments
RECURSIVE SplitSlash(_)
SplitSlash(s) ==
  IF IndexOf(s, {"/"}) > Len(s) THEN <<s>>
  ELSE <<Before(s, {"/"})>> \o SplitSlash(After(s, {"/"}))

Shorten(path) == IF path = <<>> THEN path ELSE SubSeq(path, 1, Len(path) - 1)

\* path state: append the segments of segs to path, resolving "." and ".."
RECURSIVE PathState(_, _)
PathState(path, segs) ==
  IF segs = <<>> THEN path
  ELSE LET seg == Head(segs)
           last == Len(segs) = 1
           p == IF seg = Str("..")
                  THEN (IF last THEN Append(Shorten(path), <<>>) ELSE Shorten(path))
                ELSE IF seg = Str(".")
                  THEN (IF last THEN Append(path, <<>>) ELSE path)
                ELSE Append(path, UrlPct(seg))
       IN  PathState(p, Tail(segs))

\* path start state for a hierarchical URL: rest is "", "/..." or "?..."
\* (the input after the authority, or a path-absolute reference)
ParsePathQuery(u, base, rest) ==
  LET pathStr == Before(rest, {"?"})
      segs == IF pathStr # <<>> /\ Head(pathStr) = "/"
                THEN SplitSlash(Tail(pathStr)) ELSE SplitSlash(pathStr)
      hasQ == IndexOf(rest, {"?"}) <= Len(rest)
  IN  [u EXCEPT !.path = PathState(base, segs),
                !.hasQuery = hasQ,
                !.query = IF hasQ THEN UrlPct(After(rest, {"?"})) ELSE <<>>]

\* host state / port state: auth is the input up to the first "/" or "?"
ValidHost(h) == h # <<>> /\ \A i \in 1..Len(h) : h[i] \notin {" ", "%", ":", ",", ";"}
ValidPort(p) == p = <<>> \/ (Len(p) = 1 /\ p[1] \in PortAtoms)

DefaultPort(scheme) == IF scheme = Str("https") THEN Str("443") ELSE Str("80")

ParseAuthority(scheme, rest) ==
  LET auth == Before(rest, {"/", "?"})
      h == Before(auth, {":"})
      p == After(auth, {":"})
  IN  IF ValidHost(h) /\ ValidPort(p)
        THEN ParsePathQuery(
               [NoURL EXCEPT !.ok = TRUE, !.scheme = scheme, !.host = Lower(h),
                             !.port = IF p = DefaultPort(scheme) THEN <<>> ELSE p],
               <<>>, From(rest, {"/", "?"}))
        ELSE NoURL

\* relative state: input has no scheme and base is a hierarchical URL
ParseRelative(base, input) ==
  IF input = <<>> THEN base
  ELSE IF Len(input) >= 2 /\ input[1] = "/" /\ input[2] = "/"
    THEN ParseAuthority(base.scheme, StripSlashes(input))
  ELSE IF input[1] = "/" THEN ParsePathQuery(base, <<>>, input)
  ELSE IF input[1] = "?"
    THEN [base EXCEPT !.hasQuery = TRUE, !.query = UrlPct(Tail(input))]
  ELSE ParsePathQuery(base, Shorten(base.path), input)

\* new URL(input, base); base is a parsed URL, or NoURL for new URL(input)
ParseURL(input, base) ==
  LET s == StripRight(StripLeft(input))
  IN  IF Len(s) >= 2 /\ IsSchemeAtom(s[1]) /\ s[2] = ":"
        THEN LET scheme == Lower(Str(s[1]))
                 rest == SubSeq(s, 3, Len(s))
             IN  IF scheme \in SpecialSchemes
                   THEN IF base.ok /\ base.scheme = scheme
                           /\ ~(rest # <<>> /\ Head(rest) = "/")
                          THEN ParseRelative(base, rest)
                          ELSE ParseAuthority(scheme, StripSlashes(rest))
                   ELSE [NoURL EXCEPT !.ok = TRUE, !.scheme = scheme,
                                      !.opaque = TRUE, !.path = <<rest>>]
        ELSE IF base.ok /\ ~base.opaque THEN ParseRelative(base, s)
        ELSE NoURL

RECURSIVE SerializePath(_)
SerializePath(path) ==
  IF path = <<>> THEN <<>> ELSE <<"/">> \o Head(path) \o SerializePath(Tail(path))

\* URL.prototype.href
Href(u) ==
  IF u.opaque THEN u.scheme \o <<":">> \o u.path[1]
  ELSE u.scheme \o <<":", "/", "/">> \o u.host
         \o (IF u.port = <<>> THEN <<>> ELSE <<":">> \o u.port)
         \o SerializePath(u.path)
         \o (IF u.hasQuery THEN <<"?">> \o u.query ELSE <<>>)

\* URL.prototype.hostname
Hostname(u) == u.host

(***************************************************************************)
(* Host allowlist (server.ts 15-22).                                       *)
(***************************************************************************)
\* JavaScript null (getAttribute of an absent attribute, a failed resolve)
null == Str("null")

\* String.prototype.split(','): n commas give n + 1 pieces
RECURSIVE SplitComma(_)
SplitComma(s) ==
  IF IndexOf(s, {","}) > Len(s) THEN <<s>>
  ELSE <<Before(s, {","})>> \o SplitComma(After(s, {","}))

\* Array.prototype.filter(Boolean) on strings: the empty strings are dropped
RECURSIVE FilterBoolean(_)
FilterBoolean(xs) ==
  IF xs = <<>> THEN <<>>
  ELSE (IF Head(xs) = <<>> THEN <<>> ELSE <<Head(xs)>>) \o FilterBoolean(Tail(xs))

\* (process.env.ALLOWED_HOSTS || '').split(',').filter(Boolean)
ParseAllowedHosts(env) == FilterBoolean(SplitComma(env))

\* Array.prototype.includes: strict equality with some element
RECURSIVE Includes(_, _)
Includes(xs, x) ==
  IF xs = <<>> THEN FALSE ELSE IF Head(xs) = x THEN TRUE ELSE Includes(Tail(xs), x)

\* faulty variants: the allowlist never consulted; entries compared ignoring case
isAllowedHostPermissive(allowed, hostname) == TRUE

isAllowedHostIgnoreCase(allowed, hostname) ==
  IF Len(allowed) = 0 THEN TRUE
  ELSE \E i \in 1..Len(allowed) : Lower(allowed[i]) = Lower(hostname)

isAllowedHost(allowed, hostname) ==
  IF Len(allowed) = 0 THEN TRUE ELSE Includes(allowed, hostname)

(***************************************************************************)
(* Link rewriter (server.ts 24-66).  A document is the sequence of its     *)
(* elements in tree order; an element is its tag and its attributes, an    *)
(* absent attribute being null.                                            *)
(***************************************************************************)
AttrNames == {"href", "src", "action", "http-equiv", "title"}

NoAttrs ==
  [href |-> null, src |-> null, action |-> null, title |-> null]
    @@ ("http-equiv" :> null)

\* <tag attr="val" title="title">, title = null for no title attribute
Element(tag, attr, val, title) ==
  [tag |-> tag, attrs |-> [[NoAttrs EXCEPT !["title"] = title] EXCEPT ![attr] = val]]

getAttribute(el, attr) == el.attrs[attr]
setAttribute(el, attr, val) == [el EXCEPT !.attrs[attr] = val]

resolveAbsoluteUrl(base, maybe) ==
  LET b == ParseURL(base, NoURL)
      u == IF b.ok THEN ParseURL(maybe, b) ELSE NoURL
  IN  IF u.ok THEN Href(u) ELSE null

\* /^\s*(javascript|data):/i.test(val)
ScriptSchemeTest(val) ==
  LET s == StripLeft(val)
  IN  Len(s) >= 2 /\ LowerAtom(s[1]) \in {"javascript", "data"} /\ s[2] = ":"

ProxyPrefix == <<"/", "proxy_backend", "?", "url", "=">>

\* encodeURI: of the alphabet, only % and the space are escaped
RECURSIVE encodeURI(_)
encodeURI(s) ==
  IF s = <<>> THEN <<>>
  ELSE (IF Head(s) \in {"%", " "} THEN <<"%", HexOf(Head(s))>> ELSE <<Head(s)>>)
         \o encodeURI(Tail(s))

\* faulty variant: the absolute URL escaped with encodeURI
rewriteAttrEncodeURI(baseUrl, el, attr) ==
  LET val == getAttribute(el, attr)
  IN  IF val = null \/ val = <<>> THEN el
      ELSE CHOOSE out \in
             {IF abs = null THEN el
              ELSE IF ScriptSchemeTest(val) THEN el
              ELSE setAttribute(el, attr, ProxyPrefix \o encodeURI(abs))
                : abs \in {resolveAbsoluteUrl(baseUrl, val)}} : TRUE

\* faulty variant: javascript: and data: values rewritten like any other
rewriteAttrNoSchemeSkip(baseUrl, el, attr) ==
  LET val == getAttribute(el, attr)
  IN  IF val = null \/ val = <<>> THEN el
      ELSE CHOOSE out \in
             {IF abs = null THEN el
              ELSE setAttribute(el, attr, ProxyPrefix \o encodeURIComponent(abs))
                : abs \in {resolveAbsoluteUrl(baseUrl, val)}} : TRUE

\* (CHOOSE .. : x \in {e} binds x to the value of e, computed once)
rewriteAttr(baseUrl, el, attr) ==
  LET val == getAttribute(el, attr)
  IN  IF val = null \/ val = <<>> THEN el
      ELSE CHOOSE out \in
             {IF abs = null THEN el
              ELSE IF ScriptSchemeTest(val) THEN el
              ELSE setAttribute(el, attr, ProxyPrefix \o encodeURIComponent(abs))
                : abs \in {resolveAbsoluteUrl(baseUrl, val)}} : TRUE

\* faulty variant: the selector [attr], whatever the tag
SelectsAnyTag(el, tag, attr) == el.attrs[attr] # null

\* the selector tag[attr]
Selects(el, tag, attr) == el.tag = tag /\ el.attrs[attr] # null

\* faulty variant: a value that does not resolve ends the pass, the elements
\* after it are left as they were
RECURSIVE RewriteAllAbortOnFailure(_, _, _, _)
RewriteAllAbortOnFailure(baseUrl, doc, tag, attr) ==
  IF doc = <<>> THEN <<>>
  ELSE IF Selects(Head(doc), tag, attr)
            /\ Head(doc).attrs[attr] # <<>>
            /\ resolveAbsoluteUrl(baseUrl, Head(doc).attrs[attr]) = null
    THEN doc
  ELSE <<IF Selects(Head(doc), tag, attr) THEN rewriteAttr(baseUrl, Head(doc), attr)
         ELSE Head(doc)>>
         \o RewriteAllAbortOnFailure(baseUrl, Tail(doc), tag, attr)

\* doc.querySelectorAll('tag[attr]').forEach(e => rewriteAttr(e, attr))
RECURSIVE RewriteAll(_, _, _, _)
RewriteAll(baseUrl, doc, tag, attr) ==
  IF doc = <<>> THEN <<>>
  ELSE <<IF Selects(Head(doc), tag, attr) THEN rewriteAttr(baseUrl, Head(doc), attr)
         ELSE Head(doc)>>
         \o RewriteAll(baseUrl, Tail(doc), tag, attr)

CspName == Str("Content-Security-Policy")

\* querySelectorAll('meta[http-equiv="Content-Security-Policy"]').forEach(m => m.remove())
\* (in an HTML document a selector matches the value of http-equiv ASCII
\* case-insensitively)
RECURSIVE RemoveCspMeta(_)
RemoveCspMeta(doc) ==
  IF doc = <<>> THEN <<>>
  ELSE (IF Head(doc).tag = "meta"
           /\ Lower(Head(doc).attrs["http-equiv"]) = Lower(CspName)
          THEN <<>> ELSE <<Head(doc)>>) \o RemoveCspMeta(Tail(doc))

rewriteHtml(baseUrl, html) ==
  CHOOSE out \in
    {RemoveCspMeta(d5) :
       d5 \in {RewriteAll(baseUrl, d4, "form", "action") :
       d4 \in {RewriteAll(baseUrl, d3, "link", "href") :
       d3 \in {RewriteAll(baseUrl, d2, "script", "src") :
       d2 \in {RewriteAll(baseUrl, d1, "img", "src") :
       d1 \in {RewriteAll(baseUrl, doc, "a", "href") :
       doc \in {html}}}}}}} : TRUE

(***************************************************************************)
(* DOMPurify.sanitize(html) in its default configuration (server.ts 129):  *)
(* elements outside the allowed tags are removed, and so is a URL          *)
(* attribute whose value is not an allowed URI.                            *)
(***************************************************************************)
SanitizeForbiddenTags == {"script", "link", "meta"}
SanitizeAllowedSchemes == {"http", "https", "mailto"}
UrlAttrs == {"href", "src", "action"}

RECURSIVE RemoveSpaces(_)
RemoveSpaces(s) ==
  IF s = <<>> THEN <<>>
  ELSE (IF Head(s) = " " THEN <<>> ELSE <<Head(s)>>) \o RemoveSpaces(Tail(s))

\* IS_ALLOWED_URI on the value without whitespace; data: URIs stay on img src
AllowedURI(tag, attr, val) ==
  LET s == RemoveSpaces(val)
  IN  \/ Len(s) < 2
      \/ ~IsSchemeAtom(s[1])
      \/ s[2] # ":"
      \/ LowerAtom(s[1]) \in SanitizeAllowedSchemes
      \/ (tag = "img" /\ attr = "src" /\ s[1] = "data")

SanitizeAttr(el, n) ==
  IF el.attrs[n] # null /\ ~AllowedURI(el.tag, n, el.attrs[n]) THEN null ELSE el.attrs[n]

SanitizeElement(el) ==
  [el EXCEPT !.attrs["href"] = SanitizeAttr(el, "href"),
             !.attrs["src"] = SanitizeAttr(el, "src"),
             !.attrs["action"] = SanitizeAttr(el, "action")]

RECURSIVE sanitize(_)
sanitize(doc) ==
  IF doc = <<>> THEN <<>>
  ELSE (IF Head(doc).tag \in SanitizeForbiddenTags THEN <<>>
        ELSE <<SanitizeElement(Head(doc))>>) \o sanitize(Tail(doc))

(***************************************************************************)
(* Inputs: the references, base URLs, elements and documents the           *)
(* operations are run on.                                                  *)
(***************************************************************************)
MaxElems == 2

UrlA == <<"https", ":", "/", "/", "a.com", "/", "dir", "/", "page">>
UrlB == <<"https", ":", "/", "/", "b.com", "/">>
UrlEvil == <<"https", ":", "/", "/", "evil.com", "/", "x">>

RefAbs == <<"https", ":", "/", "/", "A.com", "/", "x", "?", "q", "=", "1", "&", "r">>
RefPathAbs == <<"/", "about">>
RefPathRel == Str("about")
RefDotDot == <<"..", "/", "x">>
RefProtoRel == <<"/", "/", "b.com", "/", "x">>
RefQuery == <<"?", "q", "=", "1">>
RefSpace == <<"/", "a", " ", "b">>
RefBlank == Str(" ")
RefEmpty == <<>>
RefJs == <<"javascript", ":", "alert">>
RefJsWs == <<" ", "JavaScript", ":", "alert">>
RefData == <<"data", ":", "x">>
RefDataUp == <<"DATA", ":", "x", ",", "y">>
RefFoo == <<"foo", ":", "x">>
RefBad == <<"https", ":", "/", "/">>
RefBadHost == <<"https", ":", "/", "/", "a", " ", "b", "/">>
RefProxied == ProxyPrefix \o encodeURIComponent(<<"https", ":", "/", "/", "a.com", "/", "about">>)

Refs == {RefAbs, RefPathAbs, RefPathRel, RefDotDot, RefProtoRel, RefQuery, RefSpace,
         RefBlank, RefEmpty, RefJs, RefJsWs, RefData, RefDataUp, RefFoo, RefBad,
         RefBadHost, RefProxied}

Bases == {UrlA, UrlB}

\* the element/attribute pairs rewriteHtml visits
Targets == {<<"a", "href">>, <<"img", "src">>, <<"script", "src">>,
            <<"link", "href">>, <<"form", "action">>}

Elements ==
  {Element("a", "href", r, null) : r \in Refs}
    \cup {Element(t[1], t[2], r, null) : t \in Targets \ {<<"a", "href">>},
                                          r \in {RefPathAbs, RefJs}}
    \cup {Element("a", "href", RefPathRel, Str("about")),
          Element("a", "title", Str("about"), null),
          Element("img", "href", RefPathAbs, Str("about")),
          Element("div", "href", RefPathAbs, null),
          Element("meta", "http-equiv", CspName, null),
          Element("meta", "http-equiv", Str("refresh"), null)}

RECURSIVE SeqsUpTo(_, _)
SeqsUpTo(S, n) ==
  IF n = 0 THEN {<<>>}
  ELSE LET shorter == SeqsUpTo(S, n - 1)
       IN  shorter \cup {Append(d, e) : d \in shorter, e \in S}

Documents == SeqsUpTo(Elements, MaxElems)

(***************************************************************************)
(* The rewriter run on a document, and run again on its own output.        *)
(***************************************************************************)
VARIABLES
  rwBase, rwDoc, rwOut1, rwOut2, rwPasses,   \* the rewriter on its own
  ALLOWED_HOSTS,                             \* server.ts 15
  askHost, askResult, asked,                 \* isAllowedHost on its own
  pc, target, upstream, res, fetchCalls, rewriteBase,  \* /proxy_backend requests
  searchPc, searchQ, searchUpstream, searchRes,        \* a /search request
  ALLOWED,                                             \* render.ts 8
  renderPc, renderUrl, browser, renderRes,             \* /render requests
  mode, history, pos, iframe                           \* the client (part_000 7-13)

rwVars == <<rwBase, rwDoc, rwOut1, rwOut2, rwPasses>>
askVars == <<askHost, askResult, asked>>
proxyVars == <<pc, target, upstream, res, fetchCalls, rewriteBase>>
searchVars == <<searchPc, searchQ, searchUpstream, searchRes>>
renderVars == <<ALLOWED, renderPc, renderUrl, browser, renderRes>>
uiVars == <<mode, history, pos, iframe>>
vars == <<rwVars, ALLOWED_HOSTS, askVars, proxyVars, searchVars, renderVars, uiVars>>

Requests == {"r1", "r2"}
RenderRequests == {"q1", "q2"}

NoUpstream == [fetch |-> "none", url |-> <<>>, redirects |-> <<>>, contentType |-> null,
               xFrameOptions |-> null, read |-> "none", body |-> <<>>]
NoResponse == [sends |-> 0, status |-> 0, contentType |-> null, xFrameOptions |-> null,
               text |-> <<>>, body |-> <<>>]

RewriteIdle ==
  /\ rwBase = <<>> /\ rwDoc = <<>> /\ rwOut1 = <<>> /\ rwOut2 = <<>> /\ rwPasses = 0
AskIdle == askHost = <<>> /\ askResult = FALSE /\ asked = FALSE
ProxyIdle ==
  /\ pc = [r \in Requests |-> "idle"]
  /\ target = [r \in Requests |-> null]
  /\ upstream = [r \in Requests |-> NoUpstream]
  /\ res = [r \in Requests |-> NoResponse]
  /\ fetchCalls = [r \in Requests |-> 0]
  /\ rewriteBase = [r \in Requests |-> null]

NoSearchUpstream == [fetch |-> "none", apiUrl |-> <<>>, status |-> 0, read |-> "none",
                     json |-> null]
NoSearchResponse == [sends |-> 0, status |-> 0, error |-> <<>>, query |-> <<>>,
                     results |-> <<>>]
NoRenderResponse == [sends |-> 0, status |-> 0, contentType |-> null, text |-> <<>>]

SearchIdle ==
  /\ searchPc = "idle"
  /\ searchQ = null
  /\ searchUpstream = NoSearchUpstream
  /\ searchRes = NoSearchResponse
RenderIdle ==
  /\ ALLOWED = <<>>
  /\ renderPc = [q \in RenderRequests |-> "idle"]
  /\ renderUrl = [q \in RenderRequests |-> null]
  /\ browser = [q \in RenderRequests |-> "none"]
  /\ renderRes = [q \in RenderRequests |-> NoRenderResponse]
\* useState([]), useState(-1), useState('proxy'), an iframe with no src
UiIdle ==
  /\ mode = "proxy"
  /\ history = <<>>
  /\ pos = -1
  /\ iframe = [src |-> null, srcdoc |-> null]

InitRewrite ==
  /\ rwBase \in Bases
  /\ rwDoc \in Documents
  /\ rwOut1 = <<>>
  /\ rwOut2 = <<>>
  /\ rwPasses = 0
  /\ ALLOWED_HOSTS = <<>>
  /\ AskIdle
  /\ ProxyIdle
  /\ SearchIdle
  /\ RenderIdle
  /\ UiIdle

RewriteFirst ==
  /\ rwPasses = 0
  /\ rwOut1' = rewriteHtml(rwBase, rwDoc)
  /\ rwPasses' = 1
  /\ UNCHANGED <<rwBase, rwDoc, rwOut2, ALLOWED_HOSTS, askVars, proxyVars, searchVars, renderVars, uiVars>>

RewriteAgain ==
  /\ rwPasses = 1
  /\ rwOut2' = rewriteHtml(rwBase, rwOut1)
  /\ rwPasses' = 2
  /\ UNCHANGED <<rwBase, rwDoc, rwOut1, ALLOWED_HOSTS, askVars, proxyVars, searchVars, renderVars, uiVars>>

NextRewrite == RewriteFirst \/ RewriteAgain

SpecRewrite == InitRewrite /\ [][NextRewrite]_vars

(***************************************************************************)
(* Properties of the rewriter.                                             *)
(***************************************************************************)
IsCspMeta(el) ==
  el.tag = "meta" /\ Lower(el.attrs["http-equiv"]) = Lower(CspName)

\* the elements of the input that the output keeps, in order
KeptInput == SelectSeq(rwDoc, LAMBDA el : ~IsCspMeta(el))

IsTarget(el, attr) == <<el.tag, attr>> \in Targets /\ el.attrs[attr] # null

\* v is /proxy_backend?url=<E>, E one query parameter that decodes to u
ProxyFormOf(v, u) ==
  /\ Len(v) > Len(ProxyPrefix)
  /\ SubSeq(v, 1, Len(ProxyPrefix)) = ProxyPrefix
  /\ LET e == SubSeq(v, Len(ProxyPrefix) + 1, Len(v))
     IN  /\ \A k \in 1..Len(e) : e[k] \notin {"&", "=", "?"}
         /\ decodeURIComponent(e) = [ok |-> TRUE, val |-> u]

IsProxyForm(v) ==
  /\ Len(v) > Len(ProxyPrefix)
  /\ SubSeq(v, 1, Len(ProxyPrefix)) = ProxyPrefix
  /\ decodeURIComponent(SubSeq(v, Len(ProxyPrefix) + 1, Len(v))).ok

\* the target a proxy URL designates
ProxyTarget(v) == decodeURIComponent(SubSeq(v, Len(ProxyPrefix) + 1, Len(v))).val

\* C4 (as claimed): rewriting the rewriter's output again leaves every
\* attribute of the form /proxy_backend?url=<encoded U> designating the same
\* target U, the proxy URL not being nested inside another proxy URL.
C4_RewriteIdempotent ==
  rwPasses = 2 =>
    /\ Len(rwOut2) = Len(rwOut1)
    /\ \A i \in 1..Len(rwOut1) : \A attr \in UrlAttrs :
         (IsTarget(rwOut1[i], attr) /\ IsProxyForm(rwOut1[i].attrs[attr]))
           => /\ IsProxyForm(rwOut2[i].attrs[attr])
              /\ ProxyTarget(rwOut2[i].attrs[attr]) = ProxyTarget(rwOut1[i].attrs[attr])

\* C5 (as claimed): every reference r of a target attribute that resolves
\* against the base and is not a javascript:/data: value is rewritten to
\* /proxy_backend?url=<E>, E a single parameter that decodes to resolve(b, r).
C5_EveryResolvableRewritten ==
  rwPasses >= 1 =>
    \A i \in 1..Len(KeptInput) : \A attr \in UrlAttrs :
      LET r == KeptInput[i].attrs[attr]
      IN  (/\ IsTarget(KeptInput[i], attr)
           /\ resolveAbsoluteUrl(rwBase, r) # null
           /\ ~ScriptSchemeTest(r))
            => ProxyFormOf(rwOut1[i].attrs[attr], resolveAbsoluteUrl(rwBase, r))

\* C5 (amended): every non-empty reference r of a target attribute that
\* resolves against the base and is not a javascript:/data: value is rewritten
\* to /proxy_backend?url=<E>, E a single parameter that decodes to resolve(b, r).
C5_NonEmptyResolvableRewritten ==
  rwPasses >= 1 =>
    \A i \in 1..Len(KeptInput) : \A attr \in UrlAttrs :
      LET r == KeptInput[i].attrs[attr]
      IN  (/\ IsTarget(KeptInput[i], attr)
           /\ r # <<>>
           /\ resolveAbsoluteUrl(rwBase, r) # null
           /\ ~ScriptSchemeTest(r))
            => ProxyFormOf(rwOut1[i].attrs[attr], resolveAbsoluteUrl(rwBase, r))

C5_Witness ==
  /\ rwPasses >= 1
  /\ \E i \in 1..Len(KeptInput) :
       /\ IsTarget(KeptInput[i], "href")
       /\ KeptInput[i].attrs["href"] = RefAbs
       /\ ProxyFormOf(rwOut1[i].attrs["href"],
                      <<"https", ":", "/", "/", "a.com", "/", "x", "?", "q", "=", "1", "&", "r">>)

\* C6: a target attribute whose value matches /^\s*(javascript|data):/i has
\* the same value after rewriting as before, whatever the base URL.
C6_ScriptSchemesUntouched ==
  rwPasses >= 1 =>
    \A i \in 1..Len(KeptInput) : \A attr \in UrlAttrs :
      (IsTarget(KeptInput[i], attr) /\ ScriptSchemeTest(KeptInput[i].attrs[attr]))
        => rwOut1[i].attrs[attr] = KeptInput[i].attrs[attr]

C6_Witness ==
  /\ rwPasses >= 1
  /\ \E i, j \in 1..Len(KeptInput) :
       /\ KeptInput[i] = Element("a", "href", RefJsWs, null)
       /\ rwOut1[i] = KeptInput[i]
       /\ KeptInput[j] = Element("img", "src", RefJs, null)
       /\ rwOut1[j] = KeptInput[j]

\* some target attribute of the input has a value that does not resolve
SomeResolveFailure ==
  \E i \in 1..Len(KeptInput) : \E attr \in UrlAttrs :
    IsTarget(KeptInput[i], attr) /\ resolveAbsoluteUrl(rwBase, KeptInput[i].attrs[attr]) = null

\* C11 (as claimed): a target attribute whose value does not resolve keeps its
\* value, the rewrite yields a document, and every other target attribute of
\* the same document whose value does resolve is rewritten to the proxy form.
C11_FailureLocalAllResolvableRewritten ==
  (rwPasses >= 1 /\ SomeResolveFailure) =>
    /\ Len(rwOut1) = Len(KeptInput)
    /\ \A i \in 1..Len(KeptInput) : \A attr \in UrlAttrs :
         IsTarget(KeptInput[i], attr) =>
           LET r == KeptInput[i].attrs[attr]
           IN  IF resolveAbsoluteUrl(rwBase, r) = null
                 THEN rwOut1[i].attrs[attr] = r
                 ELSE ProxyFormOf(rwOut1[i].attrs[attr], resolveAbsoluteUrl(rwBase, r))

\* C11 (amended): a target attribute whose value does not resolve keeps its
\* value, the rewrite yields a document, and every other target attribute of
\* the same document whose value is non-empty, resolves and is not a
\* javascript:/data: value is rewritten to the proxy form.
C11_FailureLocalEligibleRewritten ==
  (rwPasses >= 1 /\ SomeResolveFailure) =>
    /\ Len(rwOut1) = Len(KeptInput)
    /\ \A i \in 1..Len(KeptInput) : \A attr \in UrlAttrs :
         IsTarget(KeptInput[i], attr) =>
           LET r == KeptInput[i].attrs[attr]
           IN  IF resolveAbsoluteUrl(rwBase, r) = null
                 THEN rwOut1[i].attrs[attr] = r
                 ELSE (r # <<>> /\ ~ScriptSchemeTest(r))
                        => ProxyFormOf(rwOut1[i].attrs[attr], resolveAbsoluteUrl(rwBase, r))

C11_Witness ==
  /\ rwPasses >= 1
  /\ Len(rwDoc) = 2
  /\ rwDoc[1] = Element("a", "href", RefBadHost, null)
  /\ rwOut1[1] = rwDoc[1]
  /\ rwDoc[2] = Element("a", "href", RefPathAbs, null)
  /\ ProxyFormOf(rwOut1[2].attrs["href"], resolveAbsoluteUrl(rwBase, RefPathAbs))

(***************************************************************************)
(* The allowlist read from the environment and asked about hostnames.      *)
(***************************************************************************)
MaxEnvLen == 3

EnvAtoms == {"a.com", "A.com", "b.com", ","}
Envs == SeqsUpTo(EnvAtoms, MaxEnvLen)
Hostnames == {Str("a.com"), Str("A.com"), Str("b.com"), Str("sub.a.com"),
              Str("evil.com"), <<>>}

InitAllow ==
  /\ ALLOWED_HOSTS \in {ParseAllowedHosts(env) : env \in Envs}
  /\ AskIdle
  /\ RewriteIdle
  /\ ProxyIdle
  /\ SearchIdle
  /\ RenderIdle
  /\ UiIdle

AskAllowed(h) ==
  /\ askHost' = h
  /\ askResult' = isAllowedHost(ALLOWED_HOSTS, h)
  /\ asked' = TRUE
  /\ UNCHANGED <<rwVars, ALLOWED_HOSTS, proxyVars, searchVars, renderVars, uiVars>>

NextAllow == \E h \in Hostnames : AskAllowed(h)

SpecAllow == InitAllow /\ [][NextAllow]_vars

MaxRedirects == 1

TextHtml == <<"text", "/", "html">>
CtHtmlUtf8 == <<"text", "/", "html", ";", " ", "charset", "=", "utf-8">>
CtHtmlLatin == <<"text", "/", "html", ";", " ", "charset", "=", "latin1">>
CtPng == <<"image", "/", "png">>
CtOctetStream == <<"application", "/", "octet-stream">>
SAMEORIGIN == Str("SAMEORIGIN")
DENY == Str("DENY")

\* String.prototype.includes
RECURSIVE StrIncludes(_, _)
StrIncludes(s, sub) ==
  IF Len(s) < Len(sub) THEN FALSE
  ELSE IF SubSeq(s, 1, Len(sub)) = sub THEN TRUE
  ELSE StrIncludes(Tail(s), sub)

\* what clients ask for, where origins redirect to, what origins answer
QueryUrls == {null, <<>>, RefPathRel, RefBadHost, UrlA, UrlEvil, RefFoo}
RedirectUrls == {UrlB, UrlEvil}
OriginContentTypes == {null, CtHtmlLatin, CtPng}
OriginFrameOptions == {null, DENY}
OriginBodies ==
  {<<Element("a", "href", RefPathRel, null), Element("script", "src", RefPathAbs, null)>>,
   <<Element("a", "href", RefFoo, null), Element("meta", "http-equiv", CspName, null)>>}
AllowlistEnvs == {<<>>, Str("a.com"), <<"a.com", ",", "b.com">>}

InitProxy ==
  /\ ALLOWED_HOSTS \in {ParseAllowedHosts(env) : env \in AllowlistEnvs}
  /\ ProxyIdle
  /\ AskIdle
  /\ RewriteIdle
  /\ SearchIdle
  /\ RenderIdle
  /\ UiIdle

\* res.status(code).send(text or body)
Send(resp, status, text, body) ==
  [resp EXCEPT !.sends = @ + 1, !.status = status, !.text = text, !.body = body]

\* upstream.headers.get('content-type') || 'application/octet-stream'
ContentTypeOf(up) == IF up.contentType = null THEN CtOctetStream ELSE up.contentType

\* the base URL handed to rewriteHtml
RewriteBaseOf(t, up) == t

\* faulty variant: the framing header left to the origin
HtmlResponseNoFrameHeader(resp, t, up, text) ==
  CHOOSE out \in
    {Send([resp EXCEPT !.contentType = CtHtmlUtf8, !.xFrameOptions = up.xFrameOptions],
          200, <<>>, rewritten) :
       rewritten \in {rewriteHtml(RewriteBaseOf(t, up), sanitized) :
       sanitized \in {sanitize(text)}}} : TRUE

\* faulty variant: the upstream document sent as it came
HtmlResponseUnprocessed(resp, t, up, text) ==
  Send([resp EXCEPT !.contentType = CtHtmlUtf8, !.xFrameOptions = SAMEORIGIN],
       200, <<>>, text)

\* lines 127-137: sanitize, rewrite, set the headers, send
HtmlResponse(resp, t, up, text) ==
  CHOOSE out \in
    {Send([resp EXCEPT !.contentType = CtHtmlUtf8, !.xFrameOptions = SAMEORIGIN],
          200, <<>>, rewritten) :
       rewritten \in {rewriteHtml(RewriteBaseOf(t, up), sanitized) :
       sanitized \in {sanitize(text)}}} : TRUE

\* faulty variant: every body sanitized, whatever its type
PassthroughResponseSanitized(resp, up, bytes) ==
  Send([resp EXCEPT !.contentType = ContentTypeOf(up)], 200, <<>>, sanitize(bytes))

\* lines 141-143: the bytes as they came, under the upstream content type
PassthroughResponse(resp, up, bytes) ==
  Send([resp EXCEPT !.contentType = ContentTypeOf(up)], 200, <<>>, bytes)

\* faulty variant: the status /search answers its failures with
ErrorResponse500(resp) == Send(resp, 500, Str("fetch error: "), <<>>)

\* lines 144-147
ErrorResponse(resp) == Send(resp, 502, Str("fetch error: "), <<>>)

\* faulty variant: relative targets resolved against the proxy's own origin
ParseTargetWithBase(t) ==
  ParseURL(t, ParseURL(<<"http", ":", "/", "/", "localhost">>, NoURL))

\* line 117: new URL(target), null when it throws
ParseTarget(t) == ParseURL(t, NoURL)

\* lines 115-122, up to the await of fetch
ProxyStart(r, t) ==
  /\ pc[r] = "idle"
  /\ target' = [target EXCEPT ![r] = t]
  /\ LET parsed == IF t = null THEN NoURL ELSE ParseTarget(t)
     IN  IF t = null \/ t = <<>>
           THEN /\ res' = [res EXCEPT ![r] = Send(@, 400, Str("missing url"), <<>>)]
                /\ pc' = [pc EXCEPT ![r] = "done"]
                /\ UNCHANGED <<fetchCalls, upstream>>
         ELSE IF ~parsed.ok
           THEN /\ res' = [res EXCEPT ![r] = Send(@, 400, Str("invalid url"), <<>>)]
                /\ pc' = [pc EXCEPT ![r] = "done"]
                /\ UNCHANGED <<fetchCalls, upstream>>
         ELSE IF ~isAllowedHost(ALLOWED_HOSTS, Hostname(parsed))
           THEN /\ res' = [res EXCEPT ![r] = Send(@, 403, Str("host not allowed"), <<>>)]
                /\ pc' = [pc EXCEPT ![r] = "done"]
                /\ UNCHANGED <<fetchCalls, upstream>>
         ELSE /\ fetchCalls' = [fetchCalls EXCEPT ![r] = @ + 1]
              /\ upstream' = [upstream EXCEPT ![r].fetch = "pending"]
              /\ pc' = [pc EXCEPT ![r] = "awaitFetch"]
              /\ UNCHANGED res
  /\ UNCHANGED <<rewriteBase, rwVars, ALLOWED_HOSTS, askVars, searchVars, renderVars, uiVars>>

\* fetch(target, { redirect: 'follow' }) resolves: the origin answered, after
\* the redirects in hops; lines 123-127 and 141 up to the await of the body
FetchResolve(r, hops, ct, xfo) ==
  /\ pc[r] = "awaitFetch"
  /\ ParseURL(target[r], NoURL).scheme \in SpecialSchemes
  /\ LET up == [upstream[r] EXCEPT
                  !.fetch = "ok",
                  !.url = IF hops = <<>> THEN Href(ParseURL(target[r], NoURL))
                          ELSE hops[Len(hops)],
                  !.redirects = hops,
                  !.contentType = ct,
                  !.xFrameOptions = xfo,
                  !.read = "pending"]
     IN  /\ upstream' = [upstream EXCEPT ![r] = up]
         /\ pc' = [pc EXCEPT ![r] = IF StrIncludes(ContentTypeOf(up), TextHtml)
                                      THEN "awaitText" ELSE "awaitBuffer"]
  /\ UNCHANGED <<target, res, fetchCalls, rewriteBase, rwVars, ALLOWED_HOSTS, askVars, searchVars, renderVars, uiVars>>

\* faulty variant: one failed fetch fails every request that awaits its fetch
FetchRejectShared(r) ==
  /\ pc[r] = "awaitFetch"
  /\ upstream' = [q \in Requests |->
                    IF pc[q] = "awaitFetch" THEN [upstream[q] EXCEPT !.fetch = "failed"]
                    ELSE upstream[q]]
  /\ res' = [q \in Requests |->
               IF pc[q] = "awaitFetch" THEN Send(res[q], 502, Str("fetch error: "), <<>>)
               ELSE res[q]]
  /\ pc' = [q \in Requests |-> IF pc[q] = "awaitFetch" THEN "done" ELSE pc[q]]
  /\ UNCHANGED <<target, fetchCalls, rewriteBase, rwVars, ALLOWED_HOSTS, askVars, searchVars, renderVars, uiVars>>

\* fetch rejects (connection error, unsupported scheme, too many redirects)
FetchReject(r) ==
  /\ pc[r] = "awaitFetch"
  /\ upstream' = [upstream EXCEPT ![r].fetch = "failed"]
  /\ res' = [res EXCEPT ![r] = ErrorResponse(@)]
  /\ pc' = [pc EXCEPT ![r] = "done"]
  /\ UNCHANGED <<target, fetchCalls, rewriteBase, rwVars, ALLOWED_HOSTS, askVars, searchVars, renderVars, uiVars>>

\* upstream.text() resolves
TextResolve(r, text) ==
  /\ pc[r] = "awaitText"
  /\ upstream' = [upstream EXCEPT ![r].read = "ok", ![r].body = text]
  /\ rewriteBase' = [rewriteBase EXCEPT ![r] = RewriteBaseOf(target[r], upstream[r])]
  /\ res' = [res EXCEPT ![r] = HtmlResponse(@, target[r], upstream[r], text)]
  /\ pc' = [pc EXCEPT ![r] = "done"]
  /\ UNCHANGED <<target, fetchCalls, rwVars, ALLOWED_HOSTS, askVars, searchVars, renderVars, uiVars>>

\* upstream.arrayBuffer() resolves
BufferResolve(r, bytes) ==
  /\ pc[r] = "awaitBuffer"
  /\ upstream' = [upstream EXCEPT ![r].read = "ok", ![r].body = bytes]
  /\ res' = [res EXCEPT ![r] = PassthroughResponse(@, upstream[r], bytes)]
  /\ pc' = [pc EXCEPT ![r] = "done"]
  /\ UNCHANGED <<target, fetchCalls, rewriteBase, rwVars, ALLOWED_HOSTS, askVars, searchVars, renderVars, uiVars>>

\* upstream.text() or upstream.arrayBuffer() rejects
BodyReject(r) ==
  /\ pc[r] \in {"awaitText", "awaitBuffer"}
  /\ upstream' = [upstream EXCEPT ![r].read = "failed"]
  /\ res' = [res EXCEPT ![r] = ErrorResponse(@)]
  /\ pc' = [pc EXCEPT ![r] = "done"]
  /\ UNCHANGED <<target, fetchCalls, rewriteBase, rwVars, ALLOWED_HOSTS, askVars, searchVars, renderVars, uiVars>>

Next ==
  \E r \in Requests :
    \/ \E t \in QueryUrls : ProxyStart(r, t)
    \/ \E hops \in SeqsUpTo(RedirectUrls, MaxRedirects),
          ct \in OriginContentTypes, xfo \in OriginFrameOptions :
         FetchResolve(r, hops, ct, xfo)
    \/ FetchReject(r)
    \/ \E text \in OriginBodies : TextResolve(r, text)
    \/ \E bytes \in OriginBodies : BufferResolve(r, bytes)
    \/ BodyReject(r)

Init == InitProxy

Spec == Init /\ [][Next]_vars

(***************************************************************************)
(* Properties of /proxy_backend.                                           *)
(***************************************************************************)
Started(r) == pc[r] # "idle"
Finished(r) == pc[r] = "done"

\* the url parameter is a well-formed absolute URL
Parses(t) == t # null /\ ParseURL(t, NoURL).ok

NotInAllowlist(h) ==
  /\ Len(ALLOWED_HOSTS) > 0
  /\ \A i \in 1..Len(ALLOWED_HOSTS) : ALLOWED_HOSTS[i] # h

OnHtmlPath(r) ==
  upstream[r].fetch = "ok" /\ StrIncludes(ContentTypeOf(upstream[r]), TextHtml)
OnPassthroughPath(r) ==
  upstream[r].fetch = "ok" /\ ~StrIncludes(ContentTypeOf(upstream[r]), TextHtml)

\* C1: a request whose url parses and whose hostname is not in a non-empty
\* allowlist is answered 403, once, and never calls fetch.
C1_ForbiddenHostNeverFetched ==
  \A r \in Requests :
    (Started(r) /\ Parses(target[r])
       /\ NotInAllowlist(Hostname(ParseURL(target[r], NoURL))))
      => /\ Finished(r)
         /\ res[r].status = 403
         /\ res[r].sends = 1
         /\ fetchCalls[r] = 0
         /\ upstream[r].fetch = "none"

C1_Witness ==
  \E r \in Requests :
    /\ Finished(r)
    /\ target[r] = UrlEvil
    /\ ALLOWED_HOSTS = <<Str("a.com"), Str("b.com")>>
    /\ res[r].status = 403
    /\ fetchCalls[r] = 0

\* C2: a request whose url is missing, empty or not a well-formed absolute URL
\* is answered 400, once, whatever the allowlist says, and never calls fetch.
C2_InvalidUrlIs400 ==
  \A r \in Requests :
    (Started(r) /\ ~Parses(target[r]))
      => /\ Finished(r)
         /\ res[r].status = 400
         /\ res[r].sends = 1
         /\ fetchCalls[r] = 0
         /\ upstream[r].fetch = "none"

C2_Witness ==
  \E r, q \in Requests :
    /\ Finished(r) /\ target[r] = RefPathRel /\ res[r].status = 400
    /\ Finished(q) /\ target[q] = <<>> /\ res[q].status = 400
    /\ Len(ALLOWED_HOSTS) > 0

\* C3 (as claimed): when fetch followed redirects, the base URL handed to the
\* rewriter is the final URL of the upstream response, and the body sent is
\* the sanitized document rewritten against that final URL.
C3_RewriteBaseIsFinalUrl ==
  \A r \in Requests :
    (Finished(r) /\ OnHtmlPath(r) /\ upstream[r].read = "ok"
       /\ upstream[r].redirects # <<>>)
      => /\ rewriteBase[r] = upstream[r].url
         /\ res[r].body = rewriteHtml(upstream[r].url, sanitize(upstream[r].body))

\* C7: a fetched and read upstream response whose content type does not
\* contain text/html is answered 200 with the upstream bytes and the upstream
\* content type, and without the header of the HTML path.
C7_PassthroughVerbatim ==
  \A r \in Requests :
    (Finished(r) /\ OnPassthroughPath(r) /\ upstream[r].read = "ok")
      => /\ res[r].status = 200
         /\ res[r].sends = 1
         /\ res[r].body = upstream[r].body
         /\ upstream[r].contentType # null
              => res[r].contentType = upstream[r].contentType
         /\ rewriteBase[r] = null

C7_Witness ==
  \E r \in Requests :
    /\ Finished(r)
    /\ upstream[r].contentType = CtPng
    /\ upstream[r].read = "ok"
    /\ \E i \in 1..Len(upstream[r].body) : upstream[r].body[i].tag = "script"
    /\ res[r].body = upstream[r].body
    /\ res[r].contentType = CtPng

\* C8: once validation and the host check passed, a failed fetch or a failed
\* body read is answered 502 with an error description, once; fetch is called
\* once per request and never again.
C8_UpstreamFailureIs502 ==
  \A r \in Requests :
    /\ fetchCalls[r] <= 1
    /\ res[r].sends <= 1
    /\ (upstream[r].fetch = "failed" \/ upstream[r].read = "failed")
         => /\ Finished(r)
            /\ res[r].status = 502
            /\ res[r].text # <<>>
            /\ res[r].sends = 1
            /\ fetchCalls[r] = 1

C8_Witness ==
  \E r, q \in Requests :
    /\ Finished(r) /\ upstream[r].fetch = "failed" /\ res[r].status = 502
    /\ Finished(q) /\ upstream[q].read = "failed" /\ res[q].status = 502
    /\ fetchCalls[r] = 1 /\ fetchCalls[q] = 1

\* C9: every 200 response of the HTML path carries X-Frame-Options:
\* SAMEORIGIN, whatever the origin sent, and its body is the upstream document
\* sanitized first and rewritten second.
C9_HtmlPathFramingAndOrder ==
  \A r \in Requests :
    (Finished(r) /\ OnHtmlPath(r) /\ upstream[r].read = "ok")
      => /\ res[r].status = 200
         /\ res[r].xFrameOptions = SAMEORIGIN
         /\ res[r].body = rewriteHtml(target[r], sanitize(upstream[r].body))

C9_Witness ==
  \E r \in Requests :
    /\ Finished(r) /\ OnHtmlPath(r) /\ upstream[r].read = "ok"
    /\ upstream[r].xFrameOptions = DENY
    /\ res[r].xFrameOptions = SAMEORIGIN
    /\ \E i \in 1..Len(upstream[r].body) : upstream[r].body[i].attrs["href"] = RefFoo
    /\ \A i \in 1..Len(res[r].body) : res[r].body[i].attrs["href"] = null

\* C12: when the upstream HTML document contains a meta element declaring a
\* Content-Security-Policy via http-equiv, the body sent by /proxy_backend
\* contains no such meta element.
C12_NoCspMetaInResponse ==
  \A r \in Requests :
    (/\ Finished(r) /\ OnHtmlPath(r) /\ upstream[r].read = "ok"
     /\ \E i \in 1..Len(upstream[r].body) : IsCspMeta(upstream[r].body[i]))
      => /\ res[r].status = 200
         /\ \A i \in 1..Len(res[r].body) : ~IsCspMeta(res[r].body[i])

C12_Witness ==
  \E r \in Requests :
    /\ Finished(r) /\ OnHtmlPath(r) /\ upstream[r].read = "ok"
    /\ \E i \in 1..Len(upstream[r].body) :
         upstream[r].body[i] = Element("meta", "http-equiv", CspName, null)
    /\ res[r].status = 200
    /\ res[r].body = <<Element("a", "href", null, null)>>

(***************************************************************************)
(* GET /search (server.ts 69-111).  The provider's JSON is a record; a     *)
(* missing member is null.                                                 *)
(***************************************************************************)
ResultCap == 30
MaxItems == 31

\* String.prototype.trim
Trim(s) == StripRight(StripLeft(s))

\* a string in a condition: undefined, null and '' are false
Truthy(s) == s # null /\ s # <<>>

\* a || b on strings
OrElse(a, b) == IF Truthy(a) THEN a ELSE b

\* 'https://api.duckduckgo.com/?' + qs.stringify({ q, format, no_html, skip_disambig })
ApiUrl(q) ==
  <<"https", ":", "/", "/", "api.duckduckgo.com", "/", "?", "q", "=">>
    \o encodeURIComponent(q)
    \o <<"&", "format", "=", "json", "&", "no_html", "=", "1",
         "&", "skip_disambig", "=", "1">>

\* Response.ok
StatusOk(status) == status >= 200 /\ status <= 299

Item(url, text) == [FirstURL |-> url, Text |-> text, Result |-> null, Topics |-> null]
Group(topics) == [FirstURL |-> null, Text |-> null, Result |-> null, Topics |-> topics]
NullItem == [FirstURL |-> null, Text |-> null, Result |-> null, Topics |-> null, isNull |-> TRUE]
IsNullItem(it) == "isNull" \in DOMAIN it

RECURSIVE Repeat(_, _)
Repeat(x, n) == IF n = 0 THEN <<>> ELSE <<x>> \o Repeat(x, n - 1)

\* lines 80-86
RECURSIVE FromResults(_)
FromResults(items) ==
  IF items = <<>> THEN <<>>
  ELSE (IF ~IsNullItem(Head(items)) /\ Truthy(Head(items).FirstURL)
            /\ Truthy(Head(items).Text)
          THEN <<[title |-> Head(items).Text, url |-> Head(items).FirstURL,
                  snippet |-> OrElse(Head(items).Result, <<>>)]>>
          ELSE <<>>) \o FromResults(Tail(items))

\* lines 90-92 and 94
RECURSIVE FromTopics(_)
FromTopics(items) ==
  IF items = <<>> THEN <<>>
  ELSE (IF Truthy(Head(items).FirstURL) /\ Truthy(Head(items).Text)
          THEN <<[title |-> Head(items).Text, url |-> Head(items).FirstURL,
                  snippet |-> null]>>
          ELSE <<>>) \o FromTopics(Tail(items))

\* lines 87-97
RECURSIVE FromRelated(_)
FromRelated(topics) ==
  IF topics = <<>> THEN <<>>
  ELSE (IF Head(topics).Topics # null THEN FromTopics(Head(topics).Topics)
        ELSE FromTopics(<<Head(topics)>>)) \o FromRelated(Tail(topics))

\* reading t.Topics of a null entry of RelatedTopics is a TypeError
Throws(j) ==
  j.RelatedTopics # null /\ \E i \in 1..Len(j.RelatedTopics) : IsNullItem(j.RelatedTopics[i])

\* lines 98-104
Summary(j) ==
  IF Truthy(j.AbstractURL) \/ Truthy(j.AbstractText)
    THEN <<[title |-> OrElse(j.Heading, OrElse(j.AbstractText, Str("Summary"))),
            url |-> OrElse(j.AbstractURL, null),
            snippet |-> OrElse(j.AbstractText, null)]>>
    ELSE <<>>

\* lines 78-104: the results array before it is cut
Results(j) ==
  Summary(j)
    \o (IF j.Results # null THEN FromResults(j.Results) ELSE <<>>)
    \o (IF j.RelatedTopics # null THEN FromRelated(j.RelatedTopics) ELSE <<>>)

\* Array.prototype.slice(0, n)
Slice(xs, n) == IF Len(xs) <= n THEN xs ELSE SubSeq(xs, 1, n)

\* what clients ask for and what the provider answers
SearchQueries == {null, <<>>, Str(" "), Str("cats"), <<" ", "cats", " ", "dogs", " ">>}
ProviderStatuses == {200, 404, 503}
ItemB == Item(UrlB, Str("b"))
ItemNoUrl == Item(null, Str("b"))
ProviderResults == {null, <<>>, <<ItemB, NullItem, ItemNoUrl>>, Repeat(ItemB, MaxItems)}
ProviderTopics ==
  {null, <<ItemB, ItemNoUrl>>, Repeat(ItemB, ResultCap), <<Group(<<>>), Group(<<ItemB, ItemB>>)>>,
   <<ItemB, NullItem>>}
ProviderAbstracts ==
  {[AbstractURL |-> null, AbstractText |-> <<>>, Heading |-> null],
   [AbstractURL |-> UrlA, AbstractText |-> <<>>, Heading |-> Str("cats")],
   [AbstractURL |-> null, AbstractText |-> Str("about"), Heading |-> <<>>]}
ProviderJson ==
  {[Results |-> rs, RelatedTopics |-> ts, AbstractURL |-> a.AbstractURL,
    AbstractText |-> a.AbstractText, Heading |-> a.Heading] :
     rs \in ProviderResults, ts \in ProviderTopics, a \in ProviderAbstracts}

InitSearch ==
  /\ ALLOWED_HOSTS = <<>>
  /\ SearchIdle
  /\ RewriteIdle
  /\ AskIdle
  /\ ProxyIdle
  /\ RenderIdle
  /\ UiIdle

\* res.status(code).json({ error })
SendError(resp, status, error) ==
  [resp EXCEPT !.sends = @ + 1, !.status = status, !.error = error]

\* lines 107-110
SearchCatchResponse(resp) == SendError(resp, 500, Str("unknown"))

\* lines 70-74, up to the await of fetch
SearchStart(q) ==
  /\ searchPc = "idle"
  /\ searchQ' = q
  /\ IF q = null \/ Trim(q) = <<>>
       THEN /\ searchRes' = SendError(searchRes, 400, <<"missing", " ", "q">>)
            /\ searchPc' = "done"
            /\ UNCHANGED searchUpstream
       ELSE /\ searchUpstream' = [searchUpstream EXCEPT !.fetch = "pending",
                                                       !.apiUrl = ApiUrl(Trim(q))]
            /\ searchPc' = "awaitFetch"
            /\ UNCHANGED searchRes
  /\ UNCHANGED <<rwVars, ALLOWED_HOSTS, askVars, proxyVars, renderVars, uiVars>>

\* fetch(apiUrl) resolves; line 75 up to the await of r.json()
SearchFetchResolve(status) ==
  /\ searchPc = "awaitFetch"
  /\ IF ~StatusOk(status)
       THEN /\ searchUpstream' = [searchUpstream EXCEPT !.fetch = "ok", !.status = status]
            /\ searchRes' = SendError(searchRes, 502, Str("search-provider-failed"))
            /\ searchPc' = "done"
       ELSE /\ searchUpstream' = [searchUpstream EXCEPT !.fetch = "ok", !.status = status,
                                                       !.read = "pending"]
            /\ searchPc' = "awaitJson"
            /\ UNCHANGED searchRes
  /\ UNCHANGED <<searchQ, rwVars, ALLOWED_HOSTS, askVars, proxyVars, renderVars, uiVars>>

\* fetch(apiUrl) rejects: the provider was not reached
SearchFetchReject ==
  /\ searchPc = "awaitFetch"
  /\ searchUpstream' = [searchUpstream EXCEPT !.fetch = "failed"]
  /\ searchRes' = SearchCatchResponse(searchRes)
  /\ searchPc' = "done"
  /\ UNCHANGED <<searchQ, rwVars, ALLOWED_HOSTS, askVars, proxyVars, renderVars, uiVars>>

\* r.json() resolves; lines 78-106
SearchJsonResolve(j) ==
  /\ searchPc = "awaitJson"
  /\ searchUpstream' = [searchUpstream EXCEPT !.read = "ok", !.json = j]
  /\ searchRes' =
       IF Throws(j) THEN SearchCatchResponse(searchRes)
       ELSE [searchRes EXCEPT !.sends = @ + 1, !.status = 200, !.query = Trim(searchQ),
                              !.results = Slice(Results(j), ResultCap)]
  /\ searchPc' = "done"
  /\ UNCHANGED <<searchQ, rwVars, ALLOWED_HOSTS, askVars, proxyVars, renderVars, uiVars>>

\* r.json() rejects: the body is no JSON
SearchJsonReject ==
  /\ searchPc = "awaitJson"
  /\ searchUpstream' = [searchUpstream EXCEPT !.read = "failed"]
  /\ searchRes' = SearchCatchResponse(searchRes)
  /\ searchPc' = "done"
  /\ UNCHANGED <<searchQ, rwVars, ALLOWED_HOSTS, askVars, proxyVars, renderVars, uiVars>>

NextSearch ==
  \/ \E q \in SearchQueries : SearchStart(q)
  \/ \E status \in ProviderStatuses : SearchFetchResolve(status)
  \/ SearchFetchReject
  \/ \E j \in ProviderJson : SearchJsonResolve(j)
  \/ SearchJsonReject

SpecSearch == InitSearch /\ [][NextSearch]_vars

\* C13 (as claimed): a finished /search request is answered 400 when q is
\* missing, 502 when the provider answered a non-success status or the call
\* to the provider failed outright, and otherwise with at most 30 results.
C13_SearchStatuses ==
  searchPc = "done" =>
    /\ searchRes.sends = 1
    /\ searchQ = null => searchRes.status = 400
    /\ (searchUpstream.fetch = "ok" /\ ~StatusOk(searchUpstream.status))
         => searchRes.status = 502
    /\ searchUpstream.fetch = "failed" => searchRes.status = 502
    /\ Len(searchRes.results) <= ResultCap

(***************************************************************************)
(* GET /render (render.ts 8-37).  A request runs from one await to the     *)
(* next in one step; the browser is "none" before puppeteer.launch         *)
(* resolves, "open" from then on and "closed" once browser.close() has     *)
(* resolved.                                                               *)
(***************************************************************************)
\* render.ts 9-11: the catch turns a URL that does not parse into false
ok(allowed, u) ==
  \/ Len(allowed) = 0
  \/ (ParseURL(u, NoURL).ok /\ Includes(allowed, Hostname(ParseURL(u, NoURL))))

RenderedPages == {<<>>, Str("page")}

RenderSend(resp, status, text) ==
  [resp EXCEPT !.sends = @ + 1, !.status = status, !.text = text]

\* lines 31-33
RenderError(resp) == RenderSend(resp, 500, Str("render error: "))

InitRender ==
  /\ ALLOWED \in {ParseAllowedHosts(env) : env \in AllowlistEnvs}
  /\ renderPc = [q \in RenderRequests |-> "idle"]
  /\ renderUrl = [q \in RenderRequests |-> null]
  /\ browser = [q \in RenderRequests |-> "none"]
  /\ renderRes = [q \in RenderRequests |-> NoRenderResponse]
  /\ ALLOWED_HOSTS = <<>>
  /\ RewriteIdle
  /\ AskIdle
  /\ ProxyIdle
  /\ SearchIdle
  /\ UiIdle

\* lines 14-20, up to the await of puppeteer.launch
RenderStart(q, u) ==
  /\ renderPc[q] = "idle"
  /\ renderUrl' = [renderUrl EXCEPT ![q] = u]
  /\ IF u = null \/ u = <<>>
       THEN /\ renderRes' = [renderRes EXCEPT ![q] = RenderSend(@, 400, Str("missing url"))]
            /\ renderPc' = [renderPc EXCEPT ![q] = "done"]
     ELSE IF ~ok(ALLOWED, u)
       THEN /\ renderRes' = [renderRes EXCEPT ![q] = RenderSend(@, 403, Str("forbidden"))]
            /\ renderPc' = [renderPc EXCEPT ![q] = "done"]
     ELSE /\ renderPc' = [renderPc EXCEPT ![q] = "awaitLaunch"]
          /\ UNCHANGED renderRes
  /\ UNCHANGED <<ALLOWED, browser, rwVars, ALLOWED_HOSTS, askVars, proxyVars, searchVars,
                 uiVars>>

\* puppeteer.launch resolves: browser is assigned
LaunchResolve(q) ==
  /\ renderPc[q] = "awaitLaunch"
  /\ browser' = [browser EXCEPT ![q] = "open"]
  /\ renderPc' = [renderPc EXCEPT ![q] = "awaitNewPage"]
  /\ UNCHANGED <<ALLOWED, renderUrl, renderRes, rwVars, ALLOWED_HOSTS, askVars, proxyVars,
                 searchVars, uiVars>>

\* puppeteer.launch rejects: catch, then finally with browser undefined
LaunchReject(q) ==
  /\ renderPc[q] = "awaitLaunch"
  /\ renderRes' = [renderRes EXCEPT ![q] = RenderError(@)]
  /\ renderPc' = [renderPc EXCEPT ![q] = "done"]
  /\ UNCHANGED <<ALLOWED, renderUrl, browser, rwVars, ALLOWED_HOSTS, askVars, proxyVars,
                 searchVars, uiVars>>

\* browser.newPage, page.setViewport or page.goto resolves (lines 24-26)
StepResolve(q) ==
  /\ renderPc[q] \in {"awaitNewPage", "awaitViewport", "awaitGoto"}
  /\ renderPc' = [renderPc EXCEPT ![q] =
                    CASE @ = "awaitNewPage" -> "awaitViewport"
                      [] @ = "awaitViewport" -> "awaitGoto"
                      [] @ = "awaitGoto" -> "awaitContent"]
  /\ UNCHANGED <<ALLOWED, renderUrl, browser, renderRes, rwVars, ALLOWED_HOSTS, askVars,
                 proxyVars, searchVars, uiVars>>

\* page.content resolves: lines 28-30, then finally up to the await of close
ContentResolve(q, html) ==
  /\ renderPc[q] = "awaitContent"
  /\ renderRes' = [renderRes EXCEPT ![q] =
                     RenderSend([@ EXCEPT !.contentType = CtHtmlUtf8], 200, html)]
  /\ renderPc' = [renderPc EXCEPT ![q] = "awaitClose"]
  /\ UNCHANGED <<ALLOWED, renderUrl, browser, rwVars, ALLOWED_HOSTS, askVars, proxyVars,
                 searchVars, uiVars>>

\* faulty variant: the error answered and the handler left, no finally
StepRejectNoFinally(q) ==
  /\ renderPc[q] \in {"awaitNewPage", "awaitViewport", "awaitGoto", "awaitContent"}
  /\ renderRes' = [renderRes EXCEPT ![q] = RenderError(@)]
  /\ renderPc' = [renderPc EXCEPT ![q] = "done"]
  /\ UNCHANGED <<ALLOWED, renderUrl, browser, rwVars, ALLOWED_HOSTS, askVars, proxyVars,
                 searchVars, uiVars>>

\* newPage, setViewport, goto (navigation failure, timeout) or content
\* rejects: catch, then finally up to the await of close
StepReject(q) ==
  /\ renderPc[q] \in {"awaitNewPage", "awaitViewport", "awaitGoto", "awaitContent"}
  /\ renderRes' = [renderRes EXCEPT ![q] = RenderError(@)]
  /\ renderPc' = [renderPc EXCEPT ![q] = "awaitClose"]
  /\ UNCHANGED <<ALLOWED, renderUrl, browser, rwVars, ALLOWED_HOSTS, askVars, proxyVars,
                 searchVars, uiVars>>

\* browser.close resolves (line 35): the handler returns
CloseResolve(q) ==
  /\ renderPc[q] = "awaitClose"
  /\ browser' = [browser EXCEPT ![q] = "closed"]
  /\ renderPc' = [renderPc EXCEPT ![q] = "done"]
  /\ UNCHANGED <<ALLOWED, renderUrl, renderRes, rwVars, ALLOWED_HOSTS, askVars, proxyVars,
                 searchVars, uiVars>>

NextRender ==
  \E q \in RenderRequests :
    \/ \E u \in QueryUrls : RenderStart(q, u)
    \/ LaunchResolve(q)
    \/ LaunchReject(q)
    \/ StepResolve(q)
    \/ \E html \in RenderedPages : ContentResolve(q, html)
    \/ StepReject(q)
    \/ CloseResolve(q)

SpecRender == InitRender /\ [][NextRender]_vars

\* C18: a /render request whose handler has finished has no open browser: a
\* browser it launched is closed, after a sent page and after every error.
C18_BrowserClosedWhenDone ==
  \A q \in RenderRequests :
    /\ renderPc[q] = "done" => browser[q] \in {"none", "closed"}
    /\ (renderPc[q] = "done" /\ renderRes[q].status = 200) => browser[q] = "closed"
    /\ renderRes[q].sends <= 1

C18_Witness ==
  \E q, p \in RenderRequests :
    /\ renderPc[q] = "done" /\ renderRes[q].status = 200 /\ browser[q] = "closed"
    /\ renderPc[p] = "done" /\ renderRes[p].status = 500 /\ browser[p] = "closed"

(***************************************************************************)
(* /proxy_backend and /render started from the same environment and asked  *)
(* for the same url.                                                       *)
(***************************************************************************)
InitContract ==
  /\ \E env \in AllowlistEnvs :
       /\ ALLOWED_HOSTS = ParseAllowedHosts(env)
       /\ ALLOWED = ParseAllowedHosts(env)
  /\ renderPc = [q \in RenderRequests |-> "idle"]
  /\ renderUrl = [q \in RenderRequests |-> null]
  /\ browser = [q \in RenderRequests |-> "none"]
  /\ renderRes = [q \in RenderRequests |-> NoRenderResponse]
  /\ ProxyIdle
  /\ RewriteIdle
  /\ AskIdle
  /\ SearchIdle
  /\ UiIdle

NextContract ==
  \/ \E r \in Requests : \E t \in QueryUrls : ProxyStart(r, t)
  \/ \E q \in RenderRequests : \E u \in QueryUrls : RenderStart(q, u)

SpecContract == InitContract /\ [][NextContract]_vars

\* the outcome of validation and allowlist check: 400, 403 or 0 for proceed
ProxyOutcome(r) == IF pc[r] = "done" THEN res[r].status ELSE 0
RenderOutcome(q) == IF renderPc[q] = "done" THEN renderRes[q].status ELSE 0

\* C14 (as claimed): /render and /proxy_backend asked for the same url under
\* the same allowlist give the same outcome (400 for a missing or unparseable
\* url, 403 for a host outside a non-empty allowlist, proceed otherwise), and
\* /render launches no browser on 400 or 403.
C14_SameAllowlistContract ==
  \A r \in Requests : \A q \in RenderRequests :
    (Started(r) /\ renderPc[q] # "idle" /\ target[r] = renderUrl[q])
      => /\ RenderOutcome(q) = ProxyOutcome(r)
         /\ ~Parses(renderUrl[q]) => RenderOutcome(q) = 400
         /\ RenderOutcome(q) \in {400, 403} => browser[q] = "none"

(***************************************************************************)
(* Concurrent /proxy_backend requests, redirects, and the rewriter's       *)
(* frame.                                                                  *)
(***************************************************************************)
\* what request r owns
OwnState(r) == <<pc[r], target[r], upstream[r], res[r], fetchCalls[r], rewriteBase[r]>>

\* a step touches the state of one request at most, and never the allowlist
OneRequestStep ==
  /\ ALLOWED_HOSTS' = ALLOWED_HOSTS
  /\ \E r \in Requests : \A q \in Requests \ {r} : OwnState(q)' = OwnState(q)

\* C15: under every interleaving of the requests' steps the allowlist stays
\* as it was at startup, a step of one request changes nothing of another
\* request, and two finished requests with the same target and the same
\* upstream response have been sent the same response.
C15_RequestsIndependent ==
  /\ [][OneRequestStep]_vars
  /\ [](\A r, q \in Requests :
          (Finished(r) /\ Finished(q) /\ target[r] = target[q]
             /\ upstream[r] = upstream[q])
            => res[r] = res[q])

C15_Witness ==
  \E r, q \in Requests :
    /\ Finished(r) /\ res[r].status = 200 /\ target[r] = UrlA
    /\ pc[q] = "awaitText" /\ target[q] = UrlEvil
    /\ upstream[q].contentType # upstream[r].contentType

\* C16 (as claimed): with a non-empty allowlist, the host of the requested
\* URL and the host of every redirect the upstream fetch followed are
\* members of the allowlist.
C16_ContactedHostsAllowed ==
  \A r \in Requests :
    (Len(ALLOWED_HOSTS) > 0 /\ upstream[r].fetch # "none")
      => /\ Includes(ALLOWED_HOSTS, Hostname(ParseURL(target[r], NoURL)))
         /\ \A i \in 1..Len(upstream[r].redirects) :
              Includes(ALLOWED_HOSTS, Hostname(ParseURL(upstream[r].redirects[i], NoURL)))

\* the value rewriteAttr gives a target attribute it rewrites
RewrittenOnce(base, r) == ProxyPrefix \o encodeURIComponent(resolveAbsoluteUrl(base, r))

\* C17: the output is the input without its CSP meta elements; every element
\* keeps its tag, every attribute that is not one of the five target pairs
\* keeps its value, and a target attribute either keeps its value or holds
\* the proxy form of its own value, applied once.
C17_RewriteFrame ==
  rwPasses >= 1 =>
    /\ Len(rwOut1) = Len(KeptInput)
    /\ \A i \in 1..Len(KeptInput) :
         /\ rwOut1[i].tag = KeptInput[i].tag
         /\ \A attr \in AttrNames :
              IF IsTarget(KeptInput[i], attr) /\ resolveAbsoluteUrl(rwBase, KeptInput[i].attrs[attr]) # null
                THEN rwOut1[i].attrs[attr] \in
                       {KeptInput[i].attrs[attr], RewrittenOnce(rwBase, KeptInput[i].attrs[attr])}
                ELSE rwOut1[i].attrs[attr] = KeptInput[i].attrs[attr]

C17_Witness ==
  /\ rwPasses >= 1
  /\ Len(rwDoc) = 2
  /\ rwDoc[1] = Element("img", "href", RefPathAbs, Str("about"))
  /\ rwOut1[1] = rwDoc[1]
  /\ rwDoc[2] = Element("a", "href", RefPathRel, Str("about"))
  /\ rwOut1[2] = Element("a", "href", RewrittenOnce(rwBase, RefPathRel), Str("about"))

(***************************************************************************)
(* The client (part_000).  history is the list of visited entries, pos the *)
(* 0-based index of the current one (-1 for none); entry i of the code is  *)
(* history[i + 1] here.  An event handler and the state updates it queues  *)
(* are one step: React commits them before the next event is handled.      *)
(* The list is kept to MaxHistory entries: a step that would make it       *)
(* longer is not taken.                                                    *)
(***************************************************************************)
MaxHistory == 4

AboutSnippet == <<"about", ":", "snippet">>
SnippetPlaceholder == Str("<div>Snippet</div>")

Modes == {"proxy", "render"}
UiUrls == {UrlA, UrlB}

\* search results to click on: with a url, with a snippet only, with neither
UiResults ==
  {[url |-> UrlA, snippet |-> Str("about")],
   [url |-> null, snippet |-> <<"a", "<", "b">>],
   [url |-> null, snippet |-> null]}

\* String(snippet).replace(/</g, '&lt;')
RECURSIVE EscapeLt(_)
EscapeLt(s) ==
  IF s = <<>> THEN <<>>
  ELSE <<IF Head(s) = "<" THEN "&lt;" ELSE Head(s)>> \o EscapeLt(Tail(s))

\* lines 16-19
Endpoint(m, targetUrl) ==
  (IF m = "proxy" THEN ProxyPrefix ELSE <<"/", "render", "?", "url", "=">>)
    \o encodeURIComponent(targetUrl)

\* prev.slice(0, p + 1)
SliceTo(prev, p) == IF p + 1 >= Len(prev) THEN prev ELSE SubSeq(prev, 1, p + 1)

\* faulty variant: the position set one past the last entry
PosPastLast(next) == Len(next)

\* line 25: next.length - 1
PosOfLast(next) == Len(next) - 1

\* lines 22-27: the history that openUrl called with position p leaves
OpenUrlHistory(prev, p, targetUrl) ==
  Append(IF p >= 0 /\ p < Len(prev) - 1 THEN SliceTo(prev, p) ELSE prev, targetUrl)

InitUi ==
  /\ UiIdle
  /\ ALLOWED_HOSTS = <<>>
  /\ RewriteIdle
  /\ AskIdle
  /\ ProxyIdle
  /\ SearchIdle
  /\ RenderIdle

UiFrame == UNCHANGED <<rwVars, ALLOWED_HOSTS, askVars, proxyVars, searchVars, renderVars>>

\* the select's onChange: setMode
SetMode(m) ==
  /\ m # mode
  /\ mode' = m
  /\ UNCHANGED <<history, pos, iframe>>
  /\ UiFrame

\* openUrl(targetUrl) called by a handler that saw position p (lines 15-28)
openUrl(p, targetUrl) ==
  /\ Len(OpenUrlHistory(history, p, targetUrl)) <= MaxHistory
  /\ iframe' = [iframe EXCEPT !.src = Endpoint(mode, targetUrl)]
  /\ history' = OpenUrlHistory(history, p, targetUrl)
  /\ pos' = PosOfLast(OpenUrlHistory(history, p, targetUrl))

\* go with the address field holding u (lines 30-33)
Go(u) ==
  /\ IF u = <<>> THEN UNCHANGED <<history, pos, iframe>> ELSE openUrl(pos, u)
  /\ UNCHANGED mode
  /\ UiFrame

\* lines 45-52
onResultClick(r) ==
  /\ IF Truthy(r.url) THEN openUrl(pos, r.url)
     ELSE IF Truthy(r.snippet)
       THEN /\ Len(SliceTo(history, pos)) < MaxHistory
            /\ iframe' = [iframe EXCEPT
                            !.srcdoc = <<"<pre>">> \o EscapeLt(r.snippet) \o <<"</pre>">>]
            /\ history' = Append(SliceTo(history, pos), AboutSnippet)
            /\ pos' = PosOfLast(Append(SliceTo(history, pos), AboutSnippet))
     ELSE UNCHANGED <<history, pos, iframe>>
  /\ UNCHANGED mode
  /\ UiFrame

\* lines 57-63 and 69-75: setPos(newPos), then the snippet placeholder or
\* openUrl(target); openUrl still sees the position of the render the handler
\* was made in, and its setPos is the later of the two
Navigate(newPos) ==
  LET entry == history[newPos + 1]
  IN  IF entry = AboutSnippet
        THEN /\ iframe' = [iframe EXCEPT !.srcdoc = SnippetPlaceholder]
             /\ pos' = newPos
             /\ UNCHANGED history
        ELSE openUrl(pos, entry)

\* lines 54-65
goBack ==
  /\ IF pos > 0 THEN Navigate(pos - 1) ELSE UNCHANGED <<history, pos, iframe>>
  /\ UNCHANGED mode
  /\ UiFrame

\* lines 66-77
goForward ==
  /\ IF pos < Len(history) - 1 THEN Navigate(pos + 1)
     ELSE UNCHANGED <<history, pos, iframe>>
  /\ UNCHANGED mode
  /\ UiFrame

NextUi ==
  \/ \E m \in Modes : SetMode(m)
  \/ \E u \in UiUrls \cup {<<>>} : Go(u)
  \/ \E r \in UiResults : onResultClick(r)
  \/ goBack
  \/ goForward

SpecUi == InitUi /\ [][NextUi]_vars

\* C19 (as claimed): goBack from a position p > 0 leaves the history list
\* unchanged and sets the position to p - 1, and goForward from a position
\* p < length - 1 leaves the history list unchanged and sets the position to
\* p + 1, for a URL entry and for the snippet placeholder alike.
C19_BackForwardKeepHistory ==
  [][/\ (goBack /\ pos > 0) => (history' = history /\ pos' = pos - 1)
     /\ (goForward /\ pos < Len(history) - 1) => (history' = history /\ pos' = pos + 1)]_vars

\* C20: the position is -1 exactly when the history list is empty, and
\* otherwise lies between 0 and the length of the list minus one.
C20_PosInRange ==
  /\ pos = -1 <=> history = <<>>
  /\ history # <<>> => (0 <= pos /\ pos <= Len(history) - 1)

C20_Witness ==
  /\ Len(history) = 3
  /\ pos = 1
  /\ history[2] = AboutSnippet
  /\ history[3] # AboutSnippet
  /\ iframe.srcdoc = SnippetPlaceholder

====
